---- MODULE Spec2Model ----
(***************************************************************************)
(* The projectile simulation engine of physics-launchpad: the useSimulation *)
(* hook (play / pause / reset / the per-frame updateSimulation callback)    *)
(* over the closed-form kinematics of physics/equations.ts.                  *)
(*                                                                           *)
(* Numbers.  The code computes in IEEE doubles; the model computes in exact  *)
(* rationals [n, d] (d > 0, lowest terms), so equal values are equal records.*)
(* Math.cos / Math.sin are tabulated on the model's launch angles.           *)
(*                                                                           *)
(* React.  isPlaying, isPaused, state and trajectory are React state; the    *)
(* three refs are plain mutable cells.  play() reads isPlaying from the      *)
(* closure of the render that created it, so the model keeps the value that  *)
(* closure holds (renderedIsPlaying) apart from the current state value      *)
(* (isPlaying); a render brings the former up to date.  A frame callback     *)
(* handed to requestAnimationFrame carries the params / results of the       *)
(* render whose play() scheduled it and reschedules itself.                  *)
(***************************************************************************)
EXTENDS Integers, Sequences, FiniteSets, TLC

VARIABLES
    params,              \* LaunchParameters prop of the hook (Index.tsx state)
    state,               \* ProjectileState (useState)
    trajectory,          \* TrajectoryData (useState)
    isPlaying,           \* useState flag, current value
    isPaused,            \* useState flag, current value
    renderedIsPlaying,   \* isPlaying as captured by the play() closure in the caller's hands
    simulationTimeRef,   \* useRef: elapsed simulation time
    lastTimeRef,         \* useRef: 0, or 1 for a performance.now() timestamp
    animationRef,        \* useRef: handle of the last requested frame, 0 for null
    frames,              \* the host's queue of requested, not yet fired, frame callbacks
    onCompleteCalls,     \* number of onComplete() invocations since the last reset()
    paramChanges,        \* number of parameter replacements since the last reset()
    wasPaused,           \* pause() has stopped a playing run since the last reset()
    onUpdateLog,         \* the states handed to onUpdate() since the last reset()
    lastOp               \* the handler that ran last (observer)

vars == <<params, state, trajectory, isPlaying, isPaused, renderedIsPlaying,
          simulationTimeRef, lastTimeRef, animationRef, frames, onCompleteCalls,
          paramChanges, wasPaused, onUpdateLog, lastOp>>

----------------------------------------------------------------------------
(* Bounds of the model *)

\* the longest trajectory a behaviour may record
MaxSamples == 6

\* the most frame callbacks that may be pending at once
MaxFrames == 2

\* the most times the caller may replace the parameters between two resets
MaxParamChanges == 1

\* the most landings a behaviour with invalid parameters may count between two resets
MaxCompletions == 3

----------------------------------------------------------------------------
(* Exact rational arithmetic *)

Abs(x) == IF x < 0 THEN -x ELSE x

RECURSIVE GCD(_, _)
GCD(a, b) == IF b = 0 THEN a ELSE GCD(b, a % b)

Rat(n, d) ==
    LET g == GCD(Abs(n), Abs(d))
        s == IF d < 0 THEN -1 ELSE 1
    IN  [n |-> (s * n) \div g, d |-> (s * d) \div g]

Zero == Rat(0, 1)
Half == Rat(1, 2)
Two  == Rat(2, 1)

RAdd(a, b) == Rat(a.n * b.d + b.n * a.d, a.d * b.d)
RSub(a, b) == Rat(a.n * b.d - b.n * a.d, a.d * b.d)
RMul(a, b) == Rat(a.n * b.n, a.d * b.d)
RDiv(a, b) == Rat(a.n * b.d, a.d * b.n)
RNeg(a)    == [n |-> -a.n, d |-> a.d]
RGt(a, b)  == a.n * b.d > b.n * a.d
RMin(a, b) == IF RGt(a, b) THEN b ELSE a

----------------------------------------------------------------------------
(* physics/constants.ts *)

\* a step twice as long: every other instant of the clock is skipped
TIME_STEP_Skipping == Rat(32, 1000)

TIME_STEP == Rat(16, 1000)

----------------------------------------------------------------------------
(* Launch parameters the model draws from *)

\* a horizontal launch (time of flight 0), a flight that ends between two steps
\* (0.026 s) and a flight that ends exactly on a step (0.032 s = 2 x TIME_STEP)
LaunchParameters ==
    {[initialVelocity |-> Rat(1, 1), launchAngle |-> 0,  gravity |-> Rat(20, 1)],
     [initialVelocity |-> Rat(1, 1), launchAngle |-> 15, gravity |-> Rat(20, 1)],
     [initialVelocity |-> Rat(1, 1), launchAngle |-> 15, gravity |-> Rat(65, 4)]}

\* parameters the hook accepts although they describe no flight: negative gravity,
\* negative launch speed (timeOfFlight comes out negative)
InvalidParameters ==
    {[initialVelocity |-> Rat(1, 1),  launchAngle |-> 15, gravity |-> Rat(-20, 1)],
     [initialVelocity |-> Rat(-1, 1), launchAngle |-> 15, gravity |-> Rat(20, 1)]}

\* valid parameters for the kinematic equations on their own: speeds from rest to the
\* limit, five launch angles, the lightest, the standard and the heaviest gravity
EquationInputs ==
    {[initialVelocity |-> Rat(v, 1), launchAngle |-> a, gravity |-> g] :
        v \in {0, 5, 20, 100}, a \in {0, 15, 30, 45, 60},
        g \in {Rat(1, 1), Rat(98, 10), Rat(20, 1)}}

\* Math.cos(angleInDegrees * DEG_TO_RAD), to two decimals, on the angles above
Cos(angleInDegrees) ==
    CASE angleInDegrees = 0  -> Rat(1, 1)
      [] angleInDegrees = 15 -> Rat(97, 100)
      [] angleInDegrees = 30 -> Rat(87, 100)
      [] angleInDegrees = 45 -> Rat(71, 100)
      [] angleInDegrees = 60 -> Rat(50, 100)

\* Math.sin(angleInDegrees * DEG_TO_RAD), to two decimals, on the angles above
Sin(angleInDegrees) ==
    CASE angleInDegrees = 0  -> Zero
      [] angleInDegrees = 15 -> Rat(26, 100)
      [] angleInDegrees = 30 -> Rat(50, 100)
      [] angleInDegrees = 45 -> Rat(71, 100)
      [] angleInDegrees = 60 -> Rat(87, 100)

----------------------------------------------------------------------------
(* physics/equations.ts *)

calculateInitialVelocityX(initialVelocity, angleInDegrees) ==
    RMul(initialVelocity, Cos(angleInDegrees))

calculateInitialVelocityY(initialVelocity, angleInDegrees) ==
    RMul(initialVelocity, Sin(angleInDegrees))

calculateTimeToMaxHeight(initialVelocityY, gravity) ==
    RDiv(initialVelocityY, gravity)

\* the time of the ascent alone
calculateTimeOfFlightAscent(initialVelocityY, gravity) ==
    RDiv(initialVelocityY, gravity)

calculateTimeOfFlight(initialVelocityY, gravity) ==
    RDiv(RMul(Two, initialVelocityY), gravity)

\* the peak without the factor 2 of the denominator
calculateMaxHeightNoHalf(initialVelocityY, gravity) ==
    RDiv(RMul(initialVelocityY, initialVelocityY), gravity)

calculateMaxHeight(initialVelocityY, gravity) ==
    RDiv(RMul(initialVelocityY, initialVelocityY), RMul(Two, gravity))

calculateHorizontalRange(initialVelocityX, timeOfFlight) ==
    RMul(initialVelocityX, timeOfFlight)

\* the height without the factor 1/2 of the gravity term
calculatePositionAtTimeNoHalf(initialVelocityX, initialVelocityY, gravity, time) ==
    [x |-> RMul(initialVelocityX, time),
     y |-> RSub(RMul(initialVelocityY, time), RMul(RMul(gravity, time), time))]

calculatePositionAtTime(initialVelocityX, initialVelocityY, gravity, time) ==
    [x |-> RMul(initialVelocityX, time),
     y |-> RSub(RMul(initialVelocityY, time),
                RMul(RMul(RMul(Half, gravity), time), time))]

\* the velocity under half the gravity
calculateVelocityAtTimeHalfGravity(initialVelocityX, initialVelocityY, gravity, time) ==
    [x |-> initialVelocityX,
     y |-> RSub(initialVelocityY, RMul(RMul(Half, gravity), time))]

calculateVelocityAtTime(initialVelocityX, initialVelocityY, gravity, time) ==
    [x |-> initialVelocityX,
     y |-> RSub(initialVelocityY, RMul(gravity, time))]

calculateAllResults(p) ==
    LET initialVelocityX == calculateInitialVelocityX(p.initialVelocity, p.launchAngle)
        initialVelocityY == calculateInitialVelocityY(p.initialVelocity, p.launchAngle)
        timeOfFlight     == calculateTimeOfFlight(initialVelocityY, p.gravity)
    IN  [initialVelocityX |-> initialVelocityX,
         initialVelocityY |-> initialVelocityY,
         timeToMaxHeight  |-> calculateTimeToMaxHeight(initialVelocityY, p.gravity),
         timeOfFlight     |-> timeOfFlight,
         maxHeight        |-> calculateMaxHeight(initialVelocityY, p.gravity),
         horizontalRange  |-> calculateHorizontalRange(initialVelocityX, timeOfFlight)]

----------------------------------------------------------------------------
(* hooks/useSimulation.ts *)

createInitialState ==
    [position |-> [x |-> Zero, y |-> Zero],
     velocity |-> [x |-> Zero, y |-> Zero],
     time     |-> Zero,
     isActive |-> FALSE]

emptyTrajectory == [positions |-> <<>>, velocities |-> <<>>, times |-> <<>>]

\* a launch sample that leaves the velocity out
launchTrajectoryNoVelocity(results) ==
    [positions  |-> <<[x |-> Zero, y |-> Zero]>>,
     velocities |-> <<>>,
     times      |-> <<Zero>>]

\* the single launch sample play() starts a fresh trajectory with
launchTrajectory(results) ==
    [positions  |-> <<[x |-> Zero, y |-> Zero]>>,
     velocities |-> <<[x |-> results.initialVelocityX, y |-> results.initialVelocityY]>>,
     times      |-> <<Zero>>]

\* a variant that records nothing
appendSampleNothing(prev, position, velocity, time) == prev

\* a variant that drops the earlier samples
appendSampleOnly(prev, position, velocity, time) ==
    [positions  |-> <<position>>,
     velocities |-> <<velocity>>,
     times      |-> <<time>>]

\* setTrajectory((prev) => ({ ...prev with one more sample }))
appendSample(prev, position, velocity, time) ==
    [positions  |-> Append(prev.positions, position),
     velocities |-> Append(prev.velocities, velocity),
     times      |-> Append(prev.times, time)]

\* a landing test that succeeds one step late
hasLandedLate(currentTime, results) ==
    RGt(currentTime, RAdd(results.timeOfFlight, TIME_STEP))

\* a landing test that never succeeds
hasLandedNever(currentTime, results) == FALSE

\* the landing test of updateSimulation
hasLanded(currentTime, results) == RGt(currentTime, results.timeOfFlight)

\* finalState with the landing velocity left pointing upwards
finalStateUpward(results) ==
    [position |-> [x |-> results.horizontalRange, y |-> Zero],
     velocity |-> [x |-> results.initialVelocityX, y |-> results.initialVelocityY],
     time     |-> results.timeOfFlight,
     isActive |-> FALSE]

\* finalState of updateSimulation
finalState(results) ==
    [position |-> [x |-> results.horizontalRange, y |-> Zero],
     velocity |-> [x |-> results.initialVelocityX, y |-> RNeg(results.initialVelocityY)],
     time     |-> results.timeOfFlight,
     isActive |-> FALSE]

\* newState of updateSimulation
newState(results, gravity, currentTime) ==
    [position |-> calculatePositionAtTime(results.initialVelocityX,
                                          results.initialVelocityY, gravity, currentTime),
     velocity |-> calculateVelocityAtTime(results.initialVelocityX,
                                          results.initialVelocityY, gravity, currentTime),
     time     |-> currentTime,
     isActive |-> TRUE]

\* requestAnimationFrame returns a handle that no pending frame of the queue has.
\* (Browser handles are never reused; every call site stores the new handle in
\* animationRef at once, so only the handles still pending can be confused with it.)
Handles == 1..MaxFrames
requestAnimationFrame(queue) ==
    CHOOSE h \in Handles :
        /\ \A f \in queue : f.id # h
        /\ \A k \in Handles : (\A f \in queue : f.id # k) => h <= k

\* cancelAnimationFrame(animationRef.current), guarded by if (animationRef.current)
cancelAnimationFrame(queue, handle) ==
    IF handle # 0 THEN {f \in queue : f.id # handle} ELSE queue

Init ==
    /\ params \in LaunchParameters
    /\ state = createInitialState
    /\ trajectory = emptyTrajectory
    /\ isPlaying = FALSE
    /\ isPaused = FALSE
    /\ renderedIsPlaying = FALSE
    /\ simulationTimeRef = Zero
    /\ lastTimeRef = 0
    /\ animationRef = 0
    /\ frames = {}
    /\ onCompleteCalls = 0
    /\ paramChanges = 0
    /\ wasPaused = FALSE
    /\ onUpdateLog = <<>>
    /\ lastOp = "init"

\* one frame callback f fires: updateSimulation of the render that scheduled it;
\* React re-renders on the state it sets
updateSimulation(f) ==
    /\ f \in frames
    /\ Len(trajectory.times) < MaxSamples
    /\ lastOp' = "tick"
    /\ LET results     == calculateAllResults(f.params)
           currentTime == simulationTimeRef
       IN  IF hasLanded(currentTime, results)
           THEN /\ state' = finalState(results)
                /\ isPlaying' = FALSE
                /\ trajectory' = appendSample(trajectory, finalState(results).position,
                                     finalState(results).velocity, finalState(results).time)
                /\ onCompleteCalls' = onCompleteCalls + 1
                /\ frames' = frames \ {f}
                /\ UNCHANGED <<simulationTimeRef, animationRef, onUpdateLog>>
           ELSE /\ state' = newState(results, f.params.gravity, currentTime)
                /\ trajectory' = appendSample(trajectory,
                                     newState(results, f.params.gravity, currentTime).position,
                                     newState(results, f.params.gravity, currentTime).velocity,
                                     currentTime)
                /\ onUpdateLog' = Append(onUpdateLog,
                                     newState(results, f.params.gravity, currentTime))
                /\ simulationTimeRef' = RAdd(simulationTimeRef, TIME_STEP)
                /\ animationRef' = requestAnimationFrame(frames \ {f})
                /\ frames' = (frames \ {f})
                     \cup {[id |-> requestAnimationFrame(frames \ {f}), params |-> f.params]}
                /\ UNCHANGED <<isPlaying, onCompleteCalls>>
    /\ renderedIsPlaying' = isPlaying'
    /\ UNCHANGED <<params, isPaused, lastTimeRef, paramChanges, wasPaused>>

\* a variant that writes the launch sample on every start, resumed or not
playRestartsTrajectory ==
    /\ lastOp' = "play"
    /\ IF renderedIsPlaying
       THEN UNCHANGED <<params, state, trajectory, isPlaying, isPaused, renderedIsPlaying,
                        simulationTimeRef, lastTimeRef, animationRef, frames,
                        onCompleteCalls, paramChanges, wasPaused,
                   onUpdateLog>>
       ELSE /\ Cardinality(frames) < MaxFrames
            /\ isPlaying' = TRUE
            /\ isPaused' = FALSE
            /\ trajectory' = launchTrajectory(calculateAllResults(params))
            /\ lastTimeRef' = 1
            /\ animationRef' = requestAnimationFrame(frames)
            /\ frames' = frames \cup {[id |-> requestAnimationFrame(frames), params |-> params]}
            /\ UNCHANGED <<params, state, renderedIsPlaying, simulationTimeRef,
                           onCompleteCalls, paramChanges, wasPaused,
                   onUpdateLog>>

\* play(): the guard reads the isPlaying of the render that created the callback
play ==
    /\ lastOp' = "play"
    /\ IF renderedIsPlaying
       THEN UNCHANGED <<params, state, trajectory, isPlaying, isPaused, renderedIsPlaying,
                        simulationTimeRef, lastTimeRef, animationRef, frames,
                        onCompleteCalls, paramChanges, wasPaused,
                   onUpdateLog>>
       ELSE /\ Cardinality(frames) < MaxFrames
            /\ isPlaying' = TRUE
            /\ isPaused' = FALSE
            /\ trajectory' = IF simulationTimeRef = Zero
                             THEN launchTrajectory(calculateAllResults(params))
                             ELSE trajectory
            /\ lastTimeRef' = 1
            /\ animationRef' = requestAnimationFrame(frames)
            /\ frames' = frames \cup {[id |-> requestAnimationFrame(frames), params |-> params]}
            /\ UNCHANGED <<params, state, renderedIsPlaying, simulationTimeRef,
                           onCompleteCalls, paramChanges, wasPaused,
                   onUpdateLog>>

\* pause that leaves isPlaying as it is
pauseKeepsPlaying ==
    /\ lastOp' = "pause"
    /\ frames' = cancelAnimationFrame(frames, animationRef)
    /\ animationRef' = 0
    /\ isPaused' = TRUE
    /\ wasPaused' = (wasPaused \/ isPlaying)
    /\ UNCHANGED <<params, state, trajectory, isPlaying, renderedIsPlaying,
                   simulationTimeRef, lastTimeRef, onCompleteCalls, paramChanges,
                   onUpdateLog>>

pause ==
    /\ lastOp' = "pause"
    /\ frames' = cancelAnimationFrame(frames, animationRef)
    /\ animationRef' = 0
    /\ isPlaying' = FALSE
    /\ isPaused' = TRUE
    /\ wasPaused' = (wasPaused \/ isPlaying)
    /\ UNCHANGED <<params, state, trajectory, renderedIsPlaying, simulationTimeRef,
                   lastTimeRef, onCompleteCalls, paramChanges, onUpdateLog>>

\* reset that forgets to zero the elapsed-time counter
resetKeepsClock ==
    /\ lastOp' = "reset"
    /\ frames' = cancelAnimationFrame(frames, animationRef)
    /\ animationRef' = 0
    /\ lastTimeRef' = 0
    /\ state' = createInitialState
    /\ trajectory' = emptyTrajectory
    /\ isPlaying' = FALSE
    /\ isPaused' = FALSE
    /\ onCompleteCalls' = 0
    /\ paramChanges' = 0
    /\ wasPaused' = FALSE
    /\ onUpdateLog' = <<>>
    /\ UNCHANGED <<params, renderedIsPlaying, simulationTimeRef>>

reset ==
    /\ lastOp' = "reset"
    /\ frames' = cancelAnimationFrame(frames, animationRef)
    /\ animationRef' = 0
    /\ simulationTimeRef' = Zero
    /\ lastTimeRef' = 0
    /\ state' = createInitialState
    /\ trajectory' = emptyTrajectory
    /\ isPlaying' = FALSE
    /\ isPaused' = FALSE
    /\ onCompleteCalls' = 0
    /\ paramChanges' = 0
    /\ wasPaused' = FALSE
    /\ onUpdateLog' = <<>>
    /\ UNCHANGED <<params, renderedIsPlaying>>

\* React re-renders the hook: the callbacks it returns now close over the current state
render ==
    /\ renderedIsPlaying # isPlaying
    /\ lastOp' = "render"
    /\ renderedIsPlaying' = isPlaying
    /\ UNCHANGED <<params, state, trajectory, isPlaying, isPaused, simulationTimeRef,
                   lastTimeRef, animationRef, frames, onCompleteCalls, paramChanges,
                   wasPaused,
                   onUpdateLog>>

\* a parameter change that also re-binds the pending frame callbacks to the new
\* parameters
onParamsChangeRebinding(p) ==
    /\ p # params
    /\ paramChanges < MaxParamChanges
    /\ paramChanges' = paramChanges + 1
    /\ lastOp' = "params"
    /\ params' = p
    /\ renderedIsPlaying' = isPlaying
    /\ frames' = {[id |-> f.id, params |-> p] : f \in frames}
    /\ UNCHANGED <<state, trajectory, isPlaying, isPaused, simulationTimeRef,
                   lastTimeRef, animationRef, onCompleteCalls, wasPaused,
                   onUpdateLog>>

\* the caller replaces the LaunchParameters (setParams of Index), which re-renders
onParamsChange(p) ==
    /\ p # params
    /\ paramChanges < MaxParamChanges
    /\ paramChanges' = paramChanges + 1
    /\ lastOp' = "params"
    /\ params' = p
    /\ renderedIsPlaying' = isPlaying
    /\ UNCHANGED <<state, trajectory, isPlaying, isPaused, simulationTimeRef,
                   lastTimeRef, animationRef, frames, onCompleteCalls, wasPaused,
                   onUpdateLog>>

\* progress without the clamp to 1
progressUnclamped ==
    IF RGt(calculateAllResults(params).timeOfFlight, Zero)
    THEN RDiv(state.time, calculateAllResults(params).timeOfFlight)
    ELSE Zero

\* progress of the hook's return value, computed at render from the current results
progress ==
    IF RGt(calculateAllResults(params).timeOfFlight, Zero)
    THEN RMin(RDiv(state.time, calculateAllResults(params).timeOfFlight), Rat(1, 1))
    ELSE Zero

Tick == \E f \in frames : updateSimulation(f)

SetParams == \E p \in LaunchParameters : onParamsChange(p)

\* play() through the callback of the latest render
playRendered == renderedIsPlaying = isPlaying /\ play

\* the hook mounted with constant parameters; play() may come through a stale closure
Next == Tick \/ play \/ pause \/ reset \/ render

Spec == Init /\ [][Next]_vars

\* the caller replaces the parameters at any time and calls play() through the
\* callback of the latest render
NextParams == Tick \/ playRendered \/ pause \/ reset \/ render \/ SetParams

SpecParams == Init /\ [][NextParams]_vars

\* a frame callback can fire: the guards of updateSimulation
TickEnabled == frames # {} /\ Len(trajectory.times) < MaxSamples

\* the same, where the host fires every frame callback it has been handed: weak
\* fairness of Tick, with its enabling condition written out
SpecLive ==
    Init /\ [][NextParams]_vars /\ ([]<>(~TickEnabled) \/ []<><<Tick>>_vars)

\* the hook mounted with invalid parameters
InitInvalid ==
    /\ params \in InvalidParameters
    /\ state = createInitialState
    /\ trajectory = emptyTrajectory
    /\ isPlaying = FALSE
    /\ isPaused = FALSE
    /\ renderedIsPlaying = FALSE
    /\ simulationTimeRef = Zero
    /\ lastTimeRef = 0
    /\ animationRef = 0
    /\ frames = {}
    /\ onCompleteCalls = 0
    /\ paramChanges = 0
    /\ wasPaused = FALSE
    /\ onUpdateLog = <<>>
    /\ lastOp = "init"

\* a pending frame fires; with invalid parameters a run lands without recording a
\* sample beyond the landing one, so the landings are what is counted
TickInvalid == onCompleteCalls < MaxCompletions /\ Tick

NextInvalid == TickInvalid \/ play \/ pause \/ reset \/ render

SpecInvalid == InitInvalid /\ [][NextInvalid]_vars

\* the kinematic equations on their own: the hook rendered with parameters p, the
\* projectile put where the equations say it is at time t
evaluateAt(p, t) ==
    /\ lastOp' = "evaluate"
    /\ params' = p
    /\ state' = newState(calculateAllResults(p), p.gravity, t)
    /\ UNCHANGED <<trajectory, isPlaying, isPaused, renderedIsPlaying, simulationTimeRef,
                   lastTimeRef, animationRef, frames, onCompleteCalls, paramChanges,
                   wasPaused,
                   onUpdateLog>>

\* the instants the equations are evaluated at: launch, apex, landing
EvaluationTimes(p) ==
    {Zero, calculateAllResults(p).timeToMaxHeight, calculateAllResults(p).timeOfFlight}

InitEquations ==
    /\ params \in EquationInputs
    /\ state = createInitialState
    /\ trajectory = emptyTrajectory
    /\ isPlaying = FALSE
    /\ isPaused = FALSE
    /\ renderedIsPlaying = FALSE
    /\ simulationTimeRef = Zero
    /\ lastTimeRef = 0
    /\ animationRef = 0
    /\ frames = {}
    /\ onCompleteCalls = 0
    /\ paramChanges = 0
    /\ wasPaused = FALSE
    /\ onUpdateLog = <<>>
    /\ lastOp = "init"

NextEquations == \E p \in EquationInputs : \E t \in EvaluationTimes(p) : evaluateAt(p, t)

SpecEquations == InitEquations /\ [][NextEquations]_vars

----------------------------------------------------------------------------
(* components/ControlPanel: the input layer that sets the parameters *)

\* what parseFloat() returns for a text that is no number (an emptied field)
NaN == [n |-> 0, d |-> 0]

isNaN(v) == v.d = 0

\* Math.min and Math.max: NaN if either argument is NaN
MathMin(a, b) == IF isNaN(a) \/ isNaN(b) THEN NaN ELSE IF RGt(a, b) THEN b ELSE a

MathMax(a, b) == IF isNaN(a) \/ isNaN(b) THEN NaN ELSE IF RGt(a, b) THEN a ELSE b

STANDARD_GRAVITY == Rat(98, 10)

DEFAULT_INITIAL_VELOCITY == Rat(20, 1)

DEFAULT_LAUNCH_ANGLE == Rat(45, 1)

LIMITS ==
    [velocity |-> [min |-> Rat(1, 1), max |-> Rat(100, 1)],
     angle    |-> [min |-> Rat(5, 1), max |-> Rat(85, 1)],
     gravity  |-> [min |-> Rat(1, 1), max |-> Rat(20, 1)]]

\* the numbers a control hands to its handler: below, inside and above every range,
\* none of them a limit itself.  Here the angle is a number like the other two
\* fields, not one of the tabulated whole degrees: no result is computed from it.
NumberInputs ==
    {Rat(-5, 1), Zero, Rat(1, 2), Rat(3, 1), Rat(98, 10), Rat(20, 1), Rat(45, 1),
     Rat(90, 1), Rat(1000, 1)}

\* what parseFloat() makes of the text of an input field
ParsedInputs == NumberInputs \cup {NaN}

\* parsed || fallback: NaN and 0 are falsy
orDefault(parsed, fallback) == IF isNaN(parsed) \/ parsed = Zero THEN fallback ELSE parsed

\* onParamsChange = setParams of the page: the hook's state is left alone
setParams(p) ==
    /\ lastOp' = "controls"
    /\ params' = p
    /\ UNCHANGED <<state, trajectory, isPlaying, isPaused, renderedIsPlaying,
                   simulationTimeRef, lastTimeRef, animationRef, frames,
                   onCompleteCalls, paramChanges, wasPaused, onUpdateLog>>

handleVelocityChange(value) ==
    setParams([params EXCEPT !.initialVelocity =
                   MathMax(LIMITS.velocity.min, MathMin(LIMITS.velocity.max, value))])

handleAngleChange(value) ==
    setParams([params EXCEPT !.launchAngle =
                   MathMax(LIMITS.angle.min, MathMin(LIMITS.angle.max, value))])

\* the gravity handler without the lower limit
handleGravityChangeNoFloor(value) ==
    setParams([params EXCEPT !.gravity = MathMin(LIMITS.gravity.max, value)])

handleGravityChange(value) ==
    setParams([params EXCEPT !.gravity =
                   MathMax(LIMITS.gravity.min, MathMin(LIMITS.gravity.max, value))])

\* the sliders hand over a number
velocitySlider == \E value \in NumberInputs : handleVelocityChange(value)

angleSlider == \E value \in NumberInputs : handleAngleChange(value)

gravitySlider == \E value \in NumberInputs : handleGravityChange(value)

\* the input fields hand over parseFloat(text) || default
velocityInput ==
    \E parsed \in ParsedInputs :
        handleVelocityChange(orDefault(parsed, DEFAULT_INITIAL_VELOCITY))

angleInput ==
    \E parsed \in ParsedInputs : handleAngleChange(orDefault(parsed, DEFAULT_LAUNCH_ANGLE))

gravityInput ==
    \E parsed \in ParsedInputs : handleGravityChange(orDefault(parsed, STANDARD_GRAVITY))

\* the page mounts with the default parameters
InitControls ==
    /\ params = [initialVelocity |-> DEFAULT_INITIAL_VELOCITY,
                 launchAngle |-> DEFAULT_LAUNCH_ANGLE,
                 gravity |-> STANDARD_GRAVITY]
    /\ state = createInitialState
    /\ trajectory = emptyTrajectory
    /\ isPlaying = FALSE
    /\ isPaused = FALSE
    /\ renderedIsPlaying = FALSE
    /\ simulationTimeRef = Zero
    /\ lastTimeRef = 0
    /\ animationRef = 0
    /\ frames = {}
    /\ onCompleteCalls = 0
    /\ paramChanges = 0
    /\ wasPaused = FALSE
    /\ onUpdateLog = <<>>
    /\ lastOp = "init"

NextControls ==
    \/ velocitySlider \/ angleSlider \/ gravitySlider
    \/ velocityInput \/ angleInput \/ gravityInput

SpecControls == InitControls /\ [][NextControls]_vars

----------------------------------------------------------------------------
(* Properties *)

\* the results the frame callback f closes over: those of the run that scheduled it
runResults(f) == calculateAllResults(f.params)

IsPrefixSeq(s, t) == Len(s) <= Len(t) /\ SubSeq(t, 1, Len(s)) = s

IsPrefix(a, b) ==
    /\ IsPrefixSeq(a.positions, b.positions)
    /\ IsPrefixSeq(a.velocities, b.velocities)
    /\ IsPrefixSeq(a.times, b.times)

Last(s) == s[Len(s)]

\* C1. Completion clamp: a tick that finds the elapsed-time counter greater than its
\* run's timeOfFlight sets ProjectileState to position (horizontalRange, 0), velocity
\* (initialVelocityX, -initialVelocityY), time timeOfFlight, inactive; appends exactly
\* that sample; sets isPlaying to false; and requests no further frame.
C1_CompletionClamp ==
    [][\A f \in frames :
          (updateSimulation(f) /\ RGt(simulationTimeRef, runResults(f).timeOfFlight)) =>
              /\ state' = [position |-> [x |-> runResults(f).horizontalRange, y |-> Zero],
                           velocity |-> [x |-> runResults(f).initialVelocityX,
                                         y |-> RSub(Zero, runResults(f).initialVelocityY)],
                           time     |-> runResults(f).timeOfFlight,
                           isActive |-> FALSE]
              /\ trajectory'.positions = Append(trajectory.positions, state'.position)
              /\ trajectory'.velocities = Append(trajectory.velocities, state'.velocity)
              /\ trajectory'.times = Append(trajectory.times, state'.time)
              /\ isPlaying' = FALSE
              /\ frames' = frames \ {f}]_vars

\* a run whose parameters were replaced in flight has landed on a completion tick:
\* the landing state is that of the run, not of the current parameters
C1_Witness ==
    /\ lastOp = "tick"
    /\ onCompleteCalls = 1
    /\ ~isPlaying
    /\ ~state.isActive
    /\ frames = {}
    /\ paramChanges = 1
    /\ state.time # calculateAllResults(params).timeOfFlight
    /\ Last(trajectory.times) = state.time

\* C2. Between two resets onComplete is invoked at most once.
C2_CompleteAtMostOnce == onCompleteCalls <= 1

\* the engine is Completed: it landed and has not been set playing again
Completed == onCompleteCalls >= 1 /\ ~isPlaying

\* C3. Completed is terminal until reset: from Completed, no step but reset() changes
\* ProjectileState or TrajectoryData or sets the engine playing again.
C3_CompletedTerminal ==
    [][(Completed /\ lastOp' # "reset") =>
          (state' = state /\ trajectory' = trajectory /\ ~isPlaying')]_vars

\* C4. Reset invariant: right after reset() the ProjectileState is the zero state, the
\* three trajectory sequences are empty, the elapsed-time counter is 0 and isPlaying
\* and isPaused are false.
C4_ResetInvariant ==
    lastOp = "reset" =>
        /\ state = [position |-> [x |-> Zero, y |-> Zero],
                    velocity |-> [x |-> Zero, y |-> Zero],
                    time     |-> Zero,
                    isActive |-> FALSE]
        /\ trajectory.positions = <<>>
        /\ trajectory.velocities = <<>>
        /\ trajectory.times = <<>>
        /\ simulationTimeRef = Zero
        /\ ~isPlaying
        /\ ~isPaused

\* reset() has just hit an engine that was playing (its play callback still says so)
C4_Witness == lastOp = "reset" /\ renderedIsPlaying /\ animationRef = 0

\* C5. No stale tick: while the engine is not playing (from a pause(), a reset() or a
\* landing until the next play() that takes effect) no frame callback changes
\* ProjectileState, TrajectoryData or the elapsed-time counter.
C5_NoStaleTick ==
    [][(~isPlaying /\ lastOp' = "tick") =>
          UNCHANGED <<state, trajectory, simulationTimeRef>>]_vars

\* C6. play() is idempotent while Running: a play() issued while the engine is playing
\* changes neither state, trajectory, elapsed-time counter and flags nor the pending
\* frames.
C6_PlayIdempotent ==
    [][(isPlaying /\ lastOp' = "play") =>
          UNCHANGED <<state, trajectory, simulationTimeRef, isPlaying, isPaused,
                      frames, animationRef>>]_vars

\* C7. pause() from Running stops ticking (no frame stays pending), leaves
\* ProjectileState, TrajectoryData and the elapsed-time counter as they were, and sets
\* isPlaying to false and isPaused to true.
C7_PauseFrame ==
    [][(isPlaying /\ lastOp' = "pause") =>
          /\ UNCHANGED <<state, trajectory, simulationTimeRef>>
          /\ ~isPlaying'
          /\ isPaused'
          /\ frames' = {}]_vars

\* C8. Fresh start: the first play() since the last reset (elapsed-time counter 0, no
\* sample recorded yet) leaves the trajectory as exactly the launch sample (time 0,
\* position (0,0), the launch velocity of the current parameters), isPlaying true,
\* isPaused false and one frame pending.
C8_FreshStart ==
    [][(simulationTimeRef = Zero /\ trajectory.times = <<>> /\ lastOp' = "play") =>
          /\ trajectory'.times = <<Zero>>
          /\ trajectory'.positions = <<[x |-> Zero, y |-> Zero]>>
          /\ trajectory'.velocities =
                <<[x |-> calculateAllResults(params).initialVelocityX,
                   y |-> calculateAllResults(params).initialVelocityY]>>
          /\ isPlaying'
          /\ ~isPaused'
          /\ Cardinality(frames') = 1]_vars

RECURSIVE uninterruptedTicks(_, _, _, _)
uninterruptedTicks(traj, t, p, fuel) ==
    LET results == calculateAllResults(p) IN
    IF hasLanded(t, results) \/ fuel = 0
    THEN appendSample(traj, finalState(results).position, finalState(results).velocity,
                      finalState(results).time)
    ELSE uninterruptedTicks(appendSample(traj, newState(results, p.gravity, t).position,
                                         newState(results, p.gravity, t).velocity, t),
                            RAdd(t, TIME_STEP), p, fuel - 1)

uninterruptedRun(p) ==
    uninterruptedTicks(launchTrajectory(calculateAllResults(p)), Zero, p, MaxSamples)

\* C10. Pausing does not alter the physics: a run with fixed parameters that has
\* completed, however many pause()/play() pairs interrupted it, has the trajectory of
\* the uninterrupted run, the landing state as its ProjectileState, and elapsed time
\* equal to timeOfFlight.
C10_PauseTransparent ==
    (onCompleteCalls = 1 /\ paramChanges = 0) =>
        /\ trajectory = uninterruptedRun(params)
        /\ state = finalState(calculateAllResults(params))
        /\ state.time = calculateAllResults(params).timeOfFlight

\* a run with samples in flight that was paused, resumed, and has landed
C10_Witness ==
    /\ onCompleteCalls = 1
    /\ paramChanges = 0
    /\ wasPaused
    /\ isPaused = FALSE
    /\ lastOp = "tick"
    /\ Len(trajectory.times) >= 5

StrictlyIncreasing(s) == \A i \in 1..(Len(s) - 1) : RGt(s[i + 1], s[i])

\* C11. Monotonicity: across one uninterrupted Running period that a fresh play()
\* started (no pause, no landing, no parameter change since the reset), the elapsed
\* times stored in trajectory.times are strictly increasing.
C11_Monotonic ==
    (isPlaying /\ ~wasPaused /\ onCompleteCalls = 0 /\ paramChanges = 0) =>
        StrictlyIncreasing(trajectory.times)

\* the engine rests in Completed: a run has landed and neither play() nor pause() has
\* taken effect since
Landed == onCompleteCalls >= 1 /\ ~isPlaying /\ ~isPaused

\* C12. Ordering guarantee: a tick that records an ordinary sample right after an
\* ordinary sample of the run records it exactly one time step (0.016) later, and
\* whenever the engine is Completed the landing sample (the landing state, whose time
\* is the run's timeOfFlight) is the last entry of the trajectory.
C12_Ordering ==
    /\ [][(lastOp' = "tick" /\ state.isActive /\ state'.isActive) =>
             /\ Last(trajectory.times) = state.time
             /\ Last(trajectory'.times) = RAdd(state.time, Rat(16, 1000))
             /\ Len(trajectory'.times) = Len(trajectory.times) + 1]_vars
    /\ [](Landed =>
             /\ ~state.isActive
             /\ Last(trajectory.times) = state.time
             /\ Last(trajectory.positions) = state.position
             /\ Last(trajectory.velocities) = state.velocity
             /\ state.position.y = Zero
             /\ (paramChanges = 0 => state.time = calculateAllResults(params).timeOfFlight))

\* a run of three ordinary samples has landed without ever being paused
C12_Witness ==
    /\ Landed
    /\ lastOp = "tick"
    /\ ~wasPaused
    /\ paramChanges = 0
    /\ onCompleteCalls = 1
    /\ Len(trajectory.times) = 5

\* C13. Degenerate flight: when the run's timeOfFlight is 0, the very first tick after
\* the play() that started it performs the completion transition (it records no
\* ordinary sample), and progress is 0.
C13_DegenerateFlight ==
    [][\A f \in frames :
          (/\ updateSimulation(f)
           /\ lastOp = "play"
           /\ simulationTimeRef = Zero
           /\ runResults(f).timeOfFlight = Zero) =>
              /\ ~state'.isActive
              /\ ~isPlaying'
              /\ onCompleteCalls' = onCompleteCalls + 1
              /\ progress' = Zero]_vars

\* C14. In every reachable state progress is state.time / timeOfFlight when that
\* quotient is below 1, is 1 when state.time has reached timeOfFlight > 0, and is 0
\* when timeOfFlight is 0; so it lies between 0 and 1.
C14_Progress ==
    LET timeOfFlight == calculateAllResults(params).timeOfFlight IN
    /\ (timeOfFlight = Zero => progress = Zero)
    /\ (timeOfFlight.n > 0 =>
           /\ progress.n * timeOfFlight.n * state.time.d
                 = progress.d *
                   (IF state.time.n * timeOfFlight.d >= timeOfFlight.n * state.time.d
                    THEN timeOfFlight.n * state.time.d
                    ELSE state.time.n * timeOfFlight.d)
           /\ (state.time.n * timeOfFlight.d >= timeOfFlight.n * state.time.d
                  => progress = [n |-> 1, d |-> 1]))
    /\ progress.n >= 0
    /\ progress.n <= progress.d

\* the clamp at work: the state holds a time beyond the timeOfFlight of the
\* parameters the caller has set since
C14_Witness ==
    /\ paramChanges = 1
    /\ RGt(calculateAllResults(params).timeOfFlight, Zero)
    /\ RGt(state.time, calculateAllResults(params).timeOfFlight)
    /\ progress = [n |-> 1, d |-> 1]

\* C15. InvalidParameter is rejected before Running: a play() while the parameters
\* have gravity <= 0 or a negative launch speed does not set the engine playing,
\* schedules no frame and leaves ProjectileState and TrajectoryData unchanged.
C15_RejectInvalid ==
    [][(lastOp' = "play" /\ (params.gravity.n <= 0 \/ params.initialVelocity.n < 0)) =>
          /\ ~isPlaying'
          /\ frames' = frames
          /\ state' = state
          /\ trajectory' = trajectory]_vars

\* C16. A run underway is not altered by a mid-run parameter change: a tick whose run
\* was started under parameters other than the current ones still uses the results and
\* gravity of its own parameters (completion threshold, sample, landing sample) and
\* hands them on to the next tick; and a run that lands without having been paused
\* has recorded the uninterrupted run of one single parameter set.
C16_RunKeepsParams ==
    /\ [][\A f \in frames :
             (updateSimulation(f) /\ f.params # params) =>
                 /\ state'.isActive = ~RGt(simulationTimeRef, runResults(f).timeOfFlight)
                 /\ state'.isActive =>
                        /\ state'.position =
                               calculatePositionAtTime(runResults(f).initialVelocityX,
                                   runResults(f).initialVelocityY, f.params.gravity,
                                   simulationTimeRef)
                        /\ state'.velocity =
                               calculateVelocityAtTime(runResults(f).initialVelocityX,
                                   runResults(f).initialVelocityY, f.params.gravity,
                                   simulationTimeRef)
                        /\ \A g \in frames' : g.params = f.params
                 /\ ~state'.isActive =>
                        /\ state'.position.x = runResults(f).horizontalRange
                        /\ state'.velocity.y = RNeg(runResults(f).initialVelocityY)
                        /\ state'.time = runResults(f).timeOfFlight]_vars
    /\ []((Landed /\ onCompleteCalls = 1 /\ ~wasPaused) =>
             \E p \in LaunchParameters :
                 /\ trajectory = uninterruptedRun(p)
                 /\ state = finalState(calculateAllResults(p)))

\* a run has landed, never paused, after its parameters were replaced in flight: what
\* it recorded is not the run of the parameters now set
C16_Witness ==
    /\ lastOp = "tick"
    /\ Landed
    /\ onCompleteCalls = 1
    /\ paramChanges = 1
    /\ ~wasPaused
    /\ Len(trajectory.times) >= 4
    /\ trajectory # uninterruptedRun(params)

\* C17. Termination: the first run since a reset, once playing, eventually lands
\* (Completed) unless a pause() or reset() intervenes, given that every pending frame
\* callback eventually fires; while playing a frame is always pending; and playing
\* ends only by the completion condition of a tick, by pause() or by reset().
C17_Termination ==
    /\ (isPlaying /\ onCompleteCalls = 0)
           ~> (onCompleteCalls = 1 \/ lastOp \in {"pause", "reset"})
    /\ [](isPlaying => frames # {})
    /\ [][(isPlaying /\ ~isPlaying') =>
             \/ lastOp' \in {"pause", "reset"}
             \/ /\ lastOp' = "tick"
                /\ onCompleteCalls' = onCompleteCalls + 1
                /\ \E f \in frames : RGt(simulationTimeRef, runResults(f).timeOfFlight)]_vars

\* a run that nothing interrupted has ended by landing
C17_Witness ==
    /\ Landed
    /\ ~wasPaused
    /\ frames = {}
    /\ animationRef # 0
    /\ RGt(state.time, Zero)
    /\ Len(trajectory.times) = 4

\* within the bounds no frame of a first run is held back
TickNeverHeld == (isPlaying /\ onCompleteCalls = 0) => Len(trajectory.times) < MaxSamples

\* C18. In every reachable state the three parallel trajectory sequences positions,
\* velocities and times have equal length.
C18_ParallelSequences ==
    /\ Len(trajectory.positions) = Len(trajectory.times)
    /\ Len(trajectory.velocities) = Len(trajectory.times)

\* a paused trajectory holding the launch sample and tick samples
C18_Witness ==
    /\ isPaused
    /\ ~isPlaying
    /\ onCompleteCalls = 0
    /\ Len(trajectory.positions) >= 3
    /\ Len(trajectory.velocities) >= 3
    /\ Len(trajectory.times) >= 3

\* C19. Symmetric-flight invariant: for all launch parameters with gravity > 0 and
\* speed >= 0, the timeOfFlight of calculateAllResults is exactly twice its
\* timeToMaxHeight (and the projectile has no vertical velocity at timeToMaxHeight).
C19_SymmetricFlight ==
    /\ calculateAllResults(params).timeOfFlight.n * calculateAllResults(params).timeToMaxHeight.d
          = 2 * calculateAllResults(params).timeToMaxHeight.n
              * calculateAllResults(params).timeOfFlight.d
    /\ calculateAllResults(params).timeOfFlight
          = RAdd(calculateAllResults(params).timeToMaxHeight,
                 calculateAllResults(params).timeToMaxHeight)

\* a flight that leaves the ground, evaluated at its apex: half of the flight time
C19_Witness ==
    /\ lastOp = "evaluate"
    /\ RGt(calculateAllResults(params).timeOfFlight, Zero)
    /\ state.time = calculateAllResults(params).timeToMaxHeight
    /\ state.velocity.y = Zero
    /\ RGt(calculateAllResults(params).timeOfFlight, state.time)

C23_AdvanceThenSample ==
    [][(lastOp' = "tick" /\ state'.isActive) =>
          /\ state'.time = RAdd(simulationTimeRef, TIME_STEP)
          /\ Last(trajectory'.times) = simulationTimeRef'
          /\ (trajectory.times = <<Zero>> => Last(trajectory'.times) = TIME_STEP)]_vars

\* C24. Every tick appends exactly one sample to the trajectory, so that a trajectory
\* begun by a fresh play() holds one sample more than ticks have run; every tick that
\* does not complete the run hands the state it built (isActive true) to onUpdate,
\* once, and requests exactly one frame in place of the one that fired, the one
\* animationRef names; a completing tick does not call onUpdate.
C24_OneSamplePerTick ==
    /\ [][lastOp' = "tick" =>
             /\ Len(trajectory'.positions) = Len(trajectory.positions) + 1
             /\ Len(trajectory'.velocities) = Len(trajectory.velocities) + 1
             /\ Len(trajectory'.times) = Len(trajectory.times) + 1
             /\ IsPrefix(trajectory, trajectory')
             /\ (state'.isActive =>
                    /\ onUpdateLog' = Append(onUpdateLog, state')
                    /\ Last(trajectory'.times) = state'.time
                    /\ Cardinality(frames') = Cardinality(frames)
                    /\ Cardinality(frames' \ {g \in frames : g.id # animationRef'}) = 1)
             /\ (~state'.isActive => onUpdateLog' = onUpdateLog)]_vars
    /\ [](Len(trajectory.times) >= 1 =>
             Len(trajectory.times) = 1 + Len(onUpdateLog) + onCompleteCalls)

\* two ticks have run since the fresh play(), neither completing: three samples, two
\* onUpdate calls, the last with the current state, one frame requested
C24_Witness ==
    /\ lastOp = "tick"
    /\ isPlaying
    /\ Len(onUpdateLog) = 2
    /\ Last(onUpdateLog) = state
    /\ onCompleteCalls = 0
    /\ Len(trajectory.times) = 3
    /\ Cardinality(frames) = 1

C26_ResultsFrozen ==
    (Len(trajectory.times) >= 1
        /\ (onCompleteCalls = 0 \/ (onCompleteCalls = 1 /\ Landed))) =>
        \E p \in LaunchParameters :
            /\ IsPrefix(trajectory, uninterruptedRun(p))
            /\ trajectory.velocities[1] = [x |-> calculateAllResults(p).initialVelocityX,
                                           y |-> calculateAllResults(p).initialVelocityY]

\* C27: input-layer clamping.  Starting from the default parameters, after any
\* sequence of velocity, angle and gravity change events of the ControlPanel the
\* parameters are numbers with the speed in [1, 100], the angle in [5, 85] and
\* the gravity in [1, 20]; so the gravity handed to the hook is positive.
C27_InputClamping ==
    /\ ~isNaN(params.initialVelocity)
    /\ ~isNaN(params.launchAngle)
    /\ ~isNaN(params.gravity)
    /\ ~RGt(LIMITS.velocity.min, params.initialVelocity)
    /\ ~RGt(params.initialVelocity, LIMITS.velocity.max)
    /\ ~RGt(LIMITS.angle.min, params.launchAngle)
    /\ ~RGt(params.launchAngle, LIMITS.angle.max)
    /\ ~RGt(LIMITS.gravity.min, params.gravity)
    /\ ~RGt(params.gravity, LIMITS.gravity.max)
    /\ RGt(params.gravity, Zero)

\* every field at a limit no control handed over: the lowest gravity, the highest
\* speed and the highest angle were all made by clamping
C27_Witness ==
    /\ lastOp = "controls"
    /\ params.gravity = LIMITS.gravity.min
    /\ params.initialVelocity = LIMITS.velocity.max
    /\ params.launchAngle = LIMITS.angle.max

\* a sample within the flight: at a time from 0 to the time of flight, not below
\* the ground
WithinFlight(time, position, results) ==
    /\ ~RGt(Zero, time)
    /\ ~RGt(time, results.timeOfFlight)
    /\ ~RGt(Zero, position.y)

\* C28: no extrapolated sample is exposed.  With the parameters unchanged (gravity
\* positive), the state and every sample of the trajectory have a time from 0 to
\* the time of flight and a height that is not negative.
C28_NoExtrapolation ==
    paramChanges = 0 =>
        /\ WithinFlight(state.time, state.position, calculateAllResults(params))
        /\ \A i \in DOMAIN trajectory.times :
               WithinFlight(trajectory.times[i], trajectory.positions[i],
                            calculateAllResults(params))

\* the clock has passed a positive time of flight and the run has landed: what is
\* exposed is the landing sample, on the ground at the time of flight
C28_Witness ==
    /\ Landed
    /\ paramChanges = 0
    /\ RGt(calculateAllResults(params).timeOfFlight, Zero)
    /\ RGt(simulationTimeRef, calculateAllResults(params).timeOfFlight)
    /\ state.time = calculateAllResults(params).timeOfFlight
    /\ state.position.y = Zero
    /\ Last(trajectory.times) = calculateAllResults(params).timeOfFlight

\* C29: isPlaying and isPaused are never both true, whatever the sequence of
\* play(), pause(), reset() and ticks.
C29_PlayingExcludesPaused == ~(isPlaying /\ isPaused)

\* a paused run has been resumed by play(): it is playing and no longer paused
C29_Witness ==
    /\ lastOp = "play"
    /\ wasPaused
    /\ isPlaying
    /\ ~isPaused
    /\ Len(trajectory.times) >= 2

\* C30: at most one tick is pending, and only while the engine is running.  No
\* frame is requested while isPlaying is false, at most one while it is true, and
\* animationRef holds the handle of the requested frame.
C30_OnePendingTick ==
    /\ ~isPlaying => frames = {}
    /\ isPlaying => Cardinality(frames) <= 1
    /\ \A f \in frames : f.id = animationRef

====
